---- MODULE Spec2Model ----
(***************************************************************************)
(* State-machine model of check_events.py, the EUGLOH course events        *)
(* scraper: one run fetches the page, extracts the events of the           *)
(* registration links, diffs them against the Seen-Set store, posts the    *)
(* new ones to the webhook, prepends them to the RSS feed and saves the    *)
(* Seen-Set store.                                                         *)
(*                                                                         *)
(* Text (URLs, titles, dates, the feed file) is a sequence of tokens, each *)
(* token a string: the delimiters the code looks for (":", "//", "/", ";", *)
(* "?", "#", "<item>", "</item>", "&", ...) are tokens of their own, so    *)
(* that parsing, joining, escaping and splitting are computed as the code  *)
(* computes them.                                                          *)
(***************************************************************************)
EXTENDS Integers, Sequences, FiniteSets, TLC

(***************************************************************************)
(* Bounds of the model.                                                    *)
(***************************************************************************)
MaxRuns == 2
MaxPage == 2
\* the enclosing elements of a link element called on its own
MaxAncestors == 2

(***************************************************************************)
(* Generic sequence helpers.                                               *)
(***************************************************************************)
Range(s) == {s[i] : i \in 1..Len(s)}

\* str.find for a single token out of a set: first index, 0 when absent.
FindTok(s, toks) ==
    IF \E i \in 1..Len(s) : s[i] \in toks
    THEN CHOOSE i \in 1..Len(s) : s[i] \in toks /\ \A j \in 1..(i-1) : s[j] \notin toks
    ELSE 0

\* str.rfind: last index, 0 when absent.
RFindTok(s, toks) ==
    IF \E i \in 1..Len(s) : s[i] \in toks
    THEN CHOOSE i \in 1..Len(s) : s[i] \in toks /\ \A j \in (i+1)..Len(s) : s[j] \notin toks
    ELSE 0

Reverse(s) == [i \in 1..Len(s) |-> s[Len(s) + 1 - i]]

\* The element of a set of one.  Only({F(x) : x \in {e}}) is F(e) with e
\* evaluated once.
Only(S) == CHOOSE x \in S : TRUE

RECURSIVE Flatten(_)
Flatten(ss) == IF ss = <<>> THEN <<>> ELSE Head(ss) \o Flatten(Tail(ss))

(***************************************************************************)
(* urllib.parse on token text.                                             *)
(***************************************************************************)
\* Tokens made of scheme characters only (letters, digits, "+", "-", "."),
\* starting with a letter: what urlsplit accepts before the first ":".
SchemeLike == {"https", "http", "mailto", "reg", "a", "b", "x.org", "y.org"}
uses_relative == {"", "http", "https"}
uses_netloc == {"", "http", "https"}
uses_params == {"", "http", "https"}

\* urlsplit, the scheme: the text before a leading ":", or the default
SplitScheme(url, default_scheme) ==
    IF Len(url) >= 2 /\ url[1] \in SchemeLike /\ url[2] = ":"
    THEN [scheme |-> url[1], rest |-> SubSeq(url, 3, Len(url))]
    ELSE [scheme |-> default_scheme, rest |-> url]

\* urlsplit, the netloc: after a leading "//", up to the first "/", "?" or "#"
SplitNetloc(url) ==
    IF url = <<>> \/ url[1] # "//" THEN [netloc |-> <<>>, rest |-> url]
    ELSE Only({ IF i = 0 THEN [netloc |-> Tail(url), rest |-> <<>>]
                ELSE [netloc |-> SubSeq(url, 2, i), rest |-> SubSeq(url, i + 1, Len(url))] :
                i \in {FindTok(Tail(url), {"/", "?", "#"})} })

\* str.split(tok, 1): the text before and after the first tok
SplitFirst(text, tok) ==
    Only({ IF i = 0 THEN [head |-> text, tail |-> <<>>]
           ELSE [head |-> SubSeq(text, 1, i - 1), tail |-> SubSeq(text, i + 1, Len(text))] :
           i \in {FindTok(text, {tok})} })

\* _splitparams, with sl the place of the last "/": split at the first ";"
\* after it
SplitParamsAfter(url, sl) ==
    Only({ IF i = 0 THEN [head |-> url, tail |-> <<>>]
           ELSE [head |-> SubSeq(url, 1, sl + i - 1),
                 tail |-> SubSeq(url, sl + i + 1, Len(url))] :
           i \in {FindTok(SubSeq(url, sl + 1, Len(url)), {";"})} })

SplitParams(url) == Only({ SplitParamsAfter(url, sl) : sl \in {RFindTok(url, {"/"})} })

\* urlparse: the path and the rest are split, the parameters are left
ParsePath(s, n, f, q) ==
    Only({ [scheme |-> s.scheme, netloc |-> n.netloc, path |-> p.head, params |-> p.tail,
            query |-> q.tail, fragment |-> f.tail] :
           p \in {IF s.scheme \in uses_params THEN SplitParams(q.head)
                  ELSE [head |-> q.head, tail |-> <<>>]} })

ParseQuery(s, n, f) == Only({ ParsePath(s, n, f, q) : q \in {SplitFirst(f.head, "?")} })

ParseFragment(s, n) == Only({ ParseQuery(s, n, f) : f \in {SplitFirst(n.rest, "#")} })

ParseNetloc(s) == Only({ ParseFragment(s, n) : n \in {SplitNetloc(s.rest)} })

\* urlsplit followed by urlparse's split of the parameters.
urlparse(url, default_scheme) ==
    Only({ ParseNetloc(s) : s \in {SplitScheme(url, default_scheme)} })

\* urlunsplit, the netloc put before the path
UnsplitNetloc(scheme, netloc, url) ==
    IF netloc # <<>>
       \/ (scheme # "" /\ scheme \in uses_netloc /\ ~(url # <<>> /\ url[1] = "//"))
    THEN <<"//">> \o netloc \o (IF url # <<>> /\ url[1] # "/" THEN <<"/">> ELSE <<>>) \o url
    ELSE url

\* urlunparse: the six components back to text.
urlunparse(p) ==
    (IF p.scheme # "" THEN <<p.scheme, ":">> ELSE <<>>)
    \o UnsplitNetloc(p.scheme, p.netloc,
                     IF p.params # <<>> THEN p.path \o <<";">> \o p.params ELSE p.path)
    \o (IF p.query # <<>> THEN <<"?">> \o p.query ELSE <<>>)
    \o (IF p.fragment # <<>> THEN <<"#">> \o p.fragment ELSE <<>>)

\* str.split('/') of a path: the segments, "" for an empty one.
RECURSIVE SplitPath(_)
SplitPath(p) ==
    IF p = <<>> THEN <<"">>
    ELSE IF Head(p) = "/" THEN <<"">> \o SplitPath(Tail(p))
    ELSE <<Head(p)>> \o Tail(SplitPath(Tail(p)))

\* '/'.join(segments)
RECURSIVE JoinPath(_)
JoinPath(segs) ==
    IF segs = <<>> THEN <<>>
    ELSE (IF Head(segs) = "" THEN <<>> ELSE <<Head(segs)>>)
         \o (IF Len(segs) = 1 THEN <<>> ELSE <<"/">> \o JoinPath(Tail(segs)))

\* The loop of urljoin that resolves "." and ".." segments.
RECURSIVE ResolveDots(_, _)
ResolveDots(segs, acc) ==
    IF segs = <<>> THEN acc
    ELSE IF Head(segs) = ".."
    THEN ResolveDots(Tail(segs),
                     IF acc # <<>> THEN SubSeq(acc, 1, Len(acc) - 1) ELSE acc)
    ELSE IF Head(segs) = "." THEN ResolveDots(Tail(segs), acc)
    ELSE ResolveDots(Tail(segs), Append(acc, Head(segs)))

NonEmpty(seg) == seg # ""

\* urljoin: base_parts, the segments of the base path without the last one
BaseParts(bpath) ==
    Only({ IF bp[Len(bp)] # "" THEN SubSeq(bp, 1, Len(bp) - 1) ELSE bp :
           bp \in {SplitPath(bpath)} })

\* urljoin: the segments to resolve; empty ones in the middle are dropped
MergeSegments(bpath, upath) ==
    IF upath # <<>> /\ upath[1] = "/" THEN SplitPath(upath)
    ELSE Only({ IF Len(joined) <= 2 THEN joined
                ELSE <<joined[1]>>
                     \o SelectSeq(SubSeq(joined, 2, Len(joined) - 1), NonEmpty)
                     \o <<joined[Len(joined)]>> :
                joined \in {BaseParts(bpath) \o SplitPath(upath)} })

\* urljoin: the resolved segments joined, "/" when nothing is left
ResolvedPath(segments) ==
    Only({ IF jp = <<>> THEN <<"/">> ELSE jp :
           jp \in { Only({ JoinPath(IF segments[Len(segments)] \in {".", ".."}
                                    THEN Append(res, "") ELSE res) :
                           res \in {ResolveDots(segments, <<>>)} }) } })

\* urljoin: the path of the reference resolved against the base path
MergePath(bpath, upath) ==
    Only({ ResolvedPath(segments) : segments \in {MergeSegments(bpath, upath)} })

\* urljoin once base and url are parsed (b, u)
JoinParsed(b, u, url) ==
    IF u.scheme # b.scheme \/ u.scheme \notin uses_relative THEN url
    ELSE IF u.scheme \in uses_netloc /\ u.netloc # <<>> THEN urlunparse(u)
    ELSE IF u.path = <<>> /\ u.params = <<>>
    THEN urlunparse([scheme |-> u.scheme,
                     netloc |-> IF u.scheme \in uses_netloc THEN b.netloc ELSE u.netloc,
                     path |-> b.path, params |-> b.params,
                     query |-> IF u.query = <<>> THEN b.query ELSE u.query,
                     fragment |-> u.fragment])
    ELSE urlunparse([scheme |-> u.scheme,
                     netloc |-> IF u.scheme \in uses_netloc THEN b.netloc ELSE u.netloc,
                     path |-> MergePath(b.path, u.path),
                     params |-> u.params, query |-> u.query, fragment |-> u.fragment])

JoinBase(b, url) == Only({ JoinParsed(b, u, url) : u \in {urlparse(url, b.scheme)} })

urljoin(base, url) ==
    IF base = <<>> THEN url
    ELSE IF url = <<>> THEN base
    ELSE Only({ JoinBase(b, url) : b \in {urlparse(base, "")} })

\* lines 53-55 with the query kept in the identity
StripUrlKeepsQuery(absolute_url) ==
    Only({ << urlunparse([scheme |-> parsed.scheme, netloc |-> parsed.netloc,
                          path |-> parsed.path, params |-> <<>>, query |-> parsed.query,
                          fragment |-> <<>>]),
              absolute_url >> :
           parsed \in {urlparse(absolute_url, "")} })

\* normalize_url, lines 53-55: query and fragment stripped from the
\* absolute address
StripUrl(absolute_url) ==
    Only({ << urlunparse([scheme |-> parsed.scheme, netloc |-> parsed.netloc,
                          path |-> parsed.path, params |-> <<>>, query |-> <<>>,
                          fragment |-> <<>>]),
              absolute_url >> :
           parsed \in {urlparse(absolute_url, "")} })

\* normalize_url: (identity, absolute link).
normalize_url(url, base_url) ==
    Only({ StripUrl(absolute_url) : absolute_url \in {urljoin(base_url, url)} })

\* Netloc tokens with "[" and without "]": urlsplit raises ValueError
\* ("Invalid IPv6 URL") on an address with such a netloc.
InvalidNetloc == {"[x.org"}

ParseRaises(url, default_scheme) ==
    \E parsed \in {urlparse(url, default_scheme)} :
        \E i \in 1..Len(parsed.netloc) : parsed.netloc[i] \in InvalidNetloc

\* normalize_url raises: urljoin does, parsing the base or the reference,
\* or urlparse does on the absolute address.
normalize_url_raises(url, base_url) ==
    \/ /\ base_url # <<>>
       /\ url # <<>>
       /\ \/ ParseRaises(base_url, "")
          \/ \E b \in {urlparse(base_url, "")} : ParseRaises(url, b.scheme)
    \/ \E absolute_url \in {urljoin(base_url, url)} : ParseRaises(absolute_url, "")

\* The page address (configuration, line 19), as token text.
TARGET_URL == <<"https", ":", "//", "x.org", "/", "courses", "/", "?", "open=yes">>

(***************************************************************************)
(* The markup of the page: what the selectors find around one registration *)
(* link.  ancestors lists the enclosing elements, nearest first, each with *)
(* what select_one finds in it for the title and the date selector.        *)
(***************************************************************************)
\* get_text(strip=True): leading and trailing white space removed.
RECURSIVE LStrip(_)
LStrip(t) == IF t # <<>> /\ Head(t) = " " THEN LStrip(Tail(t)) ELSE t

StripText(t) == Reverse(LStrip(Reverse(LStrip(t))))

NoMatch == [hasTitle |-> FALSE, titleText |-> <<>>, hasDate |-> FALSE,
            datetime |-> <<>>, dateText |-> <<>>]

\* for ancestor in link_element.parents: select_one(TITLE_SELECTOR); break
RECURSIVE AncestorTitle(_)
AncestorTitle(ancestors) ==
    IF ancestors = <<>> THEN <<>>
    ELSE IF Head(ancestors).hasTitle THEN StripText(Head(ancestors).titleText)
    ELSE AncestorTitle(Tail(ancestors))

\* for ancestor in link_element.parents: select_one(DATE_SELECTOR); break
RECURSIVE AncestorDate(_)
AncestorDate(ancestors) ==
    IF ancestors = <<>> THEN <<>>
    ELSE IF Head(ancestors).hasDate
         THEN IF Head(ancestors).datetime # <<>> THEN Head(ancestors).datetime
              ELSE StripText(Head(ancestors).dateText)
    ELSE AncestorDate(Tail(ancestors))

\* lines 87-89 dropped: the title found, empty or not
TitleOfNoFallback(link_element) == AncestorTitle(link_element.ancestors)

\* lines 87-89: the title found, else the link text, else the placeholder
TitleOf(link_element) ==
    Only({ IF t # <<>> THEN t
           ELSE IF StripText(link_element.text) # <<>> THEN StripText(link_element.text)
           ELSE <<"Untitled Event">> :
           t \in {AncestorTitle(link_element.ancestors)} })

\* lines 101-102: the date found, else the placeholder
DateOf(link_element) ==
    Only({ IF d # <<>> THEN d ELSE <<"Date TBD">> :
           d \in {AncestorDate(link_element.ancestors)} })

\* extract_event_data: <<event>>, or <<>> for None.  The flag raises of a
\* link element stands for an exception raised by the markup library.
extract_event_data(link_element, base_url) ==
    IF link_element.raises THEN <<>>
    ELSE IF link_element.href = <<>> THEN <<>>
    ELSE IF normalize_url_raises(link_element.href, base_url) THEN <<>>
    ELSE Only({ << [id |-> n[1], link |-> n[2], title |-> TitleOf(link_element),
                    date |-> DateOf(link_element)] >> :
                n \in {normalize_url(link_element.href, base_url)} })

\* The link nodes a fetched page is made of.
\* neither title nor date around the link: the link text is the title
NodeA == [href |-> <<"/", "reg", "/", "a">>, text |-> <<" ", "Register", " ">>,
          raises |-> FALSE, ancestors |-> << NoMatch >>]
\* the same registration page as NodeA, reached through a tracking link
NodeA2 == [href |-> <<"/", "reg", "/", "a", "?", "sid=1&src=x", "#", "top">>,
           text |-> <<"Register">>, raises |-> FALSE,
           ancestors |-> << NoMatch,
                            [hasTitle |-> TRUE, titleText |-> <<" ", "Intro", "&", "Bio", " ">>,
                             hasDate |-> TRUE, datetime |-> <<"2025-05-01">>,
                             dateText |-> <<"May 1">>] >>]
\* a relative link, under a title that spells feed markup
NodeB == [href |-> <<"reg", "/", "b">>, text |-> <<"Sign up">>, raises |-> FALSE,
          ancestors |-> << [hasTitle |-> TRUE, titleText |-> <<"<item>", "Tags", "</item>">>,
                            hasDate |-> TRUE, datetime |-> <<>>,
                            dateText |-> <<"<", "June", ">">>] >>]
\* a link without href
NodeNoHref == [href |-> <<>>, text |-> <<"Register">>, raises |-> FALSE,
               ancestors |-> << NoMatch >>]
\* a node on which the extraction raises
NodeBroken == [href |-> <<"/", "reg", "/", "a">>, text |-> <<>>, raises |-> TRUE,
               ancestors |-> <<>>]

Nodes == {NodeA, NodeA2, NodeB, NodeNoHref, NodeBroken}

Pages == UNION {[1..n -> Nodes] : n \in 0..MaxPage}

\* lines 259-263 with a loop that ends at the first node without event
RECURSIVE ExtractAllStopsAtFailure(_, _)
ExtractAllStopsAtFailure(link_elements, base_url) ==
    IF link_elements = <<>> THEN <<>>
    ELSE IF extract_event_data(Head(link_elements), base_url) = <<>> THEN <<>>
    ELSE extract_event_data(Head(link_elements), base_url)
         \o ExtractAllStopsAtFailure(Tail(link_elements), base_url)

\* lines 259-263: the events of the nodes that extract, in page order
RECURSIVE ExtractAll(_, _)
ExtractAll(link_elements, base_url) ==
    IF link_elements = <<>> THEN <<>>
    ELSE extract_event_data(Head(link_elements), base_url)
         \o ExtractAll(Tail(link_elements), base_url)

(***************************************************************************)
(* The Seen-Set store: a JSON array of identity strings, written sorted.   *)
(***************************************************************************)
\* Python's string order on tokens: the position of the token in this list.
TokOrder == <<"//", "/", ":", ";", "?", "a", "b", "c", "courses", "http", "https",
              "mailto", "reg", "x.org", "y.org">>

TokRank(t) == IF t \in Range(TokOrder)
              THEN CHOOSE i \in 1..Len(TokOrder) : TokOrder[i] = t
              ELSE 0

\* s <= t in Python's order on strings
RECURSIVE StrLeq(_, _)
StrLeq(s, t) ==
    IF s = <<>> THEN TRUE
    ELSE IF t = <<>> THEN FALSE
    ELSE IF Head(s) = Head(t) THEN StrLeq(Tail(s), Tail(t))
    ELSE TokRank(Head(s)) < TokRank(Head(t))

\* sorted(..., reverse=True): the largest first
RECURSIVE sortedDescending(_)
sortedDescending(S) ==
    IF S = {} THEN <<>>
    ELSE Only({ <<m>> \o Only({ sortedDescending(R) : R \in {S \ {m}} }) :
                m \in {CHOOSE x \in S : \A y \in S : StrLeq(y, x)} })

\* sorted(list(seen_ids))
RECURSIVE sorted(_)
sorted(S) ==
    IF S = {} THEN <<>>
    ELSE Only({ <<m>> \o Only({ sorted(R) : R \in {S \ {m}} }) :
                m \in {CHOOSE x \in S : \A y \in S : StrLeq(x, y)} })

AbsentFile == [kind |-> "absent", ids |-> <<>>]
UnreadableFile == [kind |-> "unreadable", ids |-> <<>>]
ListFile(ids) == [kind |-> "list", ids |-> ids]

\* load_seen_events that never reads the file
LoadNothing(file) == {}

\* load_seen_events: the set of the stored identities, set() when the file
\* is missing or json.load raises
load_seen_events(file) == IF file.kind = "list" THEN Range(file.ids) ELSE {}

\* the file save_seen_events leaves when the write succeeds
SavedFile(seen_ids) == ListFile(sorted(seen_ids))

\* the files save_seen_events can leave when the write raises: open() failed
\* and the file is as it was, or open() truncated it and json.dump did not
\* complete, which leaves text that is no JSON array
FailedSave(file) == {file, UnreadableFile}

(***************************************************************************)
(* The RSS feed.                                                           *)
(***************************************************************************)
\* no escaping: the token as it is
EscapeTokRaw(t) == t

\* xml.sax.saxutils.escape on one token
EscapeTok(t) ==
    CASE t = "&" -> "&amp;"
      [] t = "<" -> "&lt;"
      [] t = ">" -> "&gt;"
      [] t = "<item>" -> "&lt;item&gt;"
      [] t = "</item>" -> "&lt;/item&gt;"
      [] t = "&amp;" -> "&amp;amp;"
      [] t = "&lt;" -> "&amp;lt;"
      [] t = "&gt;" -> "&amp;gt;"
      [] t = "&lt;item&gt;" -> "&amp;lt;item&amp;gt;"
      [] t = "&lt;/item&gt;" -> "&amp;lt;/item&amp;gt;"
      [] t = "sid=1&src=x" -> "sid=1&amp;src=x"
      [] t = "sid=1&amp;src=x" -> "sid=1&amp;amp;src=x"
      [] OTHER -> t

escape(text) == [i \in 1..Len(text) |-> EscapeTok(text[i])]

\* datetime.utcnow() rendered: the time of run n
TimeText(n) == <<"T", ToString(n)>>

generate_rss_item(event, now) ==
    LET title == escape(event.title)
        link == escape(event.link)
        date_str == escape(event.date)
        description == escape(<<"Registration Date: ">> \o date_str)
    IN  <<"  ", "<item>", "<title>">> \o title \o <<"</title>", "<link>">> \o link
        \o <<"</link>", "<description>">> \o description
        \o <<"</description>", "<pubDate>">> \o TimeText(now)
        \o <<"</pubDate>", "<guid>">> \o link \o <<"</guid>", "</item>">>

\* content.split('</item>')
RECURSIVE SplitItems(_)
SplitItems(content) ==
    Only({ IF i = 0 THEN <<content>>
           ELSE <<SubSeq(content, 1, i - 1)>>
                \o Only({ SplitItems(rest) : rest \in {SubSeq(content, i + 1, Len(content))} }) :
           i \in {FindTok(content, {"</item>"})} })

\* lines 197-201: the items of an existing feed text
HasItem(part) == "<item>" \in Range(part)

\* line 201 without item_start: the part from its first token on
ItemOfWholePart(part) == part \o <<"</item>">>

ItemOf(part) == SubSeq(part, FindTok(part, {"<item>"}), Len(part)) \o <<"</item>">>

ExistingItems(content) ==
    Only({ [i \in 1..Len(kept) |-> ItemOf(kept[i])] :
           kept \in { Only({ SelectSeq(SubSeq(parts, 1, Len(parts) - 1), HasItem) :
                             parts \in {SplitItems(content)} }) } })

AbsentFeed == [kind |-> "absent", text |-> <<>>]
UnreadableFeed == [kind |-> "unreadable", text |-> <<>>]
TextFeed(text) == [kind |-> "text", text |-> text]

\* lines 190-203: the items read from the feed file, none when it is
\* missing or reading it raises
existing_items(file) == IF file.kind = "text" THEN ExistingItems(file.text) ELSE <<>>

\* lines 206-207 without reversed(): the items in page order
RenderItemsPageOrder(new_evs, now) ==
    [i \in 1..Len(new_evs) |-> generate_rss_item(new_evs[i], now)]

\* lines 206-207: the items of the new events, the last of the page first
RenderItems(new_evs, now) ==
    [i \in 1..Len(new_evs) |-> generate_rss_item(Reverse(new_evs)[i], now)]

\* lines 209-225: the text update_rss_feed writes
feed_content(new_evs, file, now) ==
    LET all_items == Only({ x : x \in {RenderItems(new_evs, now) \o existing_items(file)} })
    IN  <<"<rss>", "<channel>", "<title>", "EUGLOH Course Events", "</title>", "<link>">>
        \o escape(TARGET_URL)
        \o <<"</link>", "<lastBuildDate>">> \o TimeText(now) \o <<"</lastBuildDate>">>
        \o Flatten(all_items) \o <<"</channel>", "</rss>">>

\* Where a write of the feed text can stop short: before the first token,
\* inside the first item, and right after the first item.
CutPoints(content) ==
    {0} \cup {k \in 1..(Len(content) - 1) :
                 /\ content[k] \in {"<item>", "</item>"}
                 /\ \A j \in 1..(k - 1) : content[j] # content[k]}

\* the files update_rss_feed can leave when the write raises: open() failed
\* and the file is as it was, or open() truncated it and only a prefix of
\* the text reached the file
FailedFeedWrite(file, content) ==
    {file} \cup {TextFeed(SubSeq(content, 1, k)) : k \in CutPoints(content)}

(***************************************************************************)
(* The state of the program and of the files and services around it.       *)
(***************************************************************************)
VARIABLES
    state_file,     \* STATE_FILE: the Seen-Set store
    feed_file,      \* FEED_FILE: the RSS feed
    webhook_url,    \* WEBHOOK_URL is set in the environment of the current run
    posts,          \* the webhook posts of the current run: [event, ok]
    page,           \* the link nodes of the page the current run fetched
    pc,             \* where the current run is
    exit_status,    \* exit status of the current run, Running while it runs
    runs,           \* number of runs started; the time of a run
    events,         \* scrape_events: events
    new_events,     \* scrape_events / main: new_events
    seen_ids,       \* scrape_events / main: seen_ids
    idx,            \* main: position of the loop over new_events
    \* history, read by the properties only
    repeat,         \* the run before the current one ended with status 0
                    \* and the current run fetched the same page again
    state_at_start, \* state_file when the current run started
    feed_at_start,  \* feed_file when the current run started
    loaded_ids,     \* what load_seen_events returned in the current run
    state_writes,   \* completed writes of state_file in the current run
    last_write,     \* the file the current run wrote last
    failed_at,      \* the step at which the current run was aborted
    feed_log,       \* the new-event lists and times of the feed writes so far
    retry,          \* the new-event list of the run before the current one,
                    \* when its feed write failed and the current run
                    \* fetched the same page again; <<>> otherwise
    \* a function called on its own
    args,           \* the arguments of the call
    result          \* what the call returned, <<>> before the call

vars == <<state_file, feed_file, webhook_url, posts, page, pc, exit_status, runs,
          events, new_events, seen_ids, idx, repeat, state_at_start,
          feed_at_start, loaded_ids, state_writes, last_write, failed_at, feed_log,
          retry, args, result>>

Running == -1

\* The identities a store can hold before the first run.
InitIds == {normalize_url(NodeA.href, TARGET_URL)[1]}

\* A feed file edited by hand: one item, text around it, an unclosed item.
HandEditedFeed ==
    TextFeed(<<"<rss>", "<item>", "<title>", "Old", "<item>", "</title>", "</item>",
               "stray", "<item>", "<title>", "Cut">>)

Init ==
    /\ state_file \in {AbsentFile, UnreadableFile} \cup {SavedFile(S) : S \in SUBSET InitIds}
    /\ feed_file \in {AbsentFeed, UnreadableFeed, HandEditedFeed}
    /\ webhook_url = FALSE
    /\ posts = <<>>
    /\ page = <<>>
    /\ pc = "idle"
    /\ exit_status = Running
    /\ runs = 0
    /\ events = <<>>
    /\ new_events = <<>>
    /\ seen_ids = {}
    /\ idx = 1
    /\ repeat = FALSE
    /\ state_at_start = state_file
    /\ feed_at_start = feed_file
    /\ loaded_ids = {}
    /\ state_writes = 0
    /\ last_write = "none"
    /\ failed_at = "none"
    /\ feed_log = [valid |-> feed_file.kind = "absent", writes |-> <<>>]
    /\ retry = <<>>
    /\ args = <<>>
    /\ result = <<>>

\* A run starts: main() is entered, nothing of the previous run is left but
\* the files.
StartOfRun ==
    /\ pc \in {"idle", "done"}
    /\ runs < MaxRuns
    /\ runs' = runs + 1
    /\ webhook_url' \in BOOLEAN
    /\ state_at_start' = state_file
    /\ feed_at_start' = feed_file
    /\ posts' = <<>>
    /\ events' = <<>>
    /\ new_events' = <<>>
    /\ seen_ids' = {}
    /\ loaded_ids' = {}
    /\ idx' = 1
    /\ state_writes' = 0
    /\ last_write' = "none"

\* scrape_events, lines 242-247: the request succeeds.
Fetch ==
    /\ StartOfRun
    /\ \E p \in Pages :
          /\ page' = p
          /\ repeat' = (pc = "done" /\ exit_status = 0 /\ p = page)
          /\ retry' = IF pc = "done" /\ failed_at = "feed" /\ p = page
                      THEN new_events ELSE <<>>
    /\ pc' = "fetched"
    /\ exit_status' = Running
    /\ failed_at' = "none"
    /\ UNCHANGED <<state_file, feed_file, feed_log, args, result>>

\* the exit status of a failed fetch
FetchFailStatus == 1

\* lines 248-250 without sys.exit(1): the error is logged and the run goes
\* on with a page without links
FetchFailGoesOn ==
    /\ StartOfRun
    /\ page' = <<>>
    /\ repeat' = FALSE
    /\ retry' = <<>>
    /\ pc' = "fetched"
    /\ exit_status' = Running
    /\ failed_at' = "fetch"
    /\ UNCHANGED <<state_file, feed_file, feed_log, args, result>>

\* scrape_events, lines 248-250: the request raises, sys.exit(1).
FetchFail ==
    /\ StartOfRun
    /\ page' = <<>>
    /\ repeat' = FALSE
    /\ retry' = <<>>
    /\ pc' = "done"
    /\ exit_status' = FetchFailStatus
    /\ failed_at' = "fetch"
    /\ UNCHANGED <<state_file, feed_file, feed_log, args, result>>

\* scrape_events, lines 252-265: the events of the registration links.
Extract ==
    /\ pc = "fetched"
    /\ events' = ExtractAll(page, TARGET_URL)
    /\ pc' = "extracted"
    /\ UNCHANGED <<state_file, feed_file, webhook_url, posts, page, exit_status, runs,
                   new_events, seen_ids, idx, repeat, state_at_start,
                   feed_at_start, loaded_ids, state_writes, last_write, failed_at,
                   feed_log, retry, args, result>>

\* line 269 with the test turned around: the seen events are kept
RECURSIVE NewEventsSeen(_, _)
NewEventsSeen(evs, seen) ==
    IF evs = <<>> THEN <<>>
    ELSE (IF Head(evs).id \in seen THEN <<Head(evs)>> ELSE <<>>)
         \o NewEventsSeen(Tail(evs), seen)

\* line 269: [e for e in events if e['id'] not in seen_ids]
RECURSIVE NewEvents(_, _)
NewEvents(evs, seen) ==
    IF evs = <<>> THEN <<>>
    ELSE (IF Head(evs).id \notin seen THEN <<Head(evs)>> ELSE <<>>)
         \o NewEvents(Tail(evs), seen)

\* lines 267-273 with a load that is not guarded by lines 121-122: a store
\* that cannot be read ends the run
DiffStopsOnUnreadable ==
    /\ pc = "extracted"
    /\ seen_ids' = load_seen_events(state_file)
    /\ loaded_ids' = load_seen_events(state_file)
    /\ IF state_file.kind = "unreadable"
       THEN /\ new_events' = <<>>
            /\ pc' = "done"
            /\ exit_status' = 1
            /\ failed_at' = "state"
       ELSE /\ new_events' = NewEvents(events, load_seen_events(state_file))
            /\ pc' = "diffed"
            /\ UNCHANGED <<exit_status, failed_at>>
    /\ UNCHANGED <<state_file, feed_file, webhook_url, posts, page, runs,
                   events, idx, repeat, state_at_start, feed_at_start,
                   state_writes, last_write, feed_log, retry, args, result>>

\* scrape_events, lines 267-273: load the Seen-Set, keep the new events.
Diff ==
    /\ pc = "extracted"
    /\ seen_ids' = load_seen_events(state_file)
    /\ loaded_ids' = load_seen_events(state_file)
    /\ new_events' = NewEvents(events, load_seen_events(state_file))
    /\ pc' = "diffed"
    /\ UNCHANGED <<state_file, feed_file, webhook_url, posts, page, exit_status, runs,
                   events, idx, repeat, state_at_start, feed_at_start,
                   state_writes, last_write, failed_at, feed_log, retry, args, result>>

\* post_to_webhook, lines 142-147: what is posted for an event
Payload(event, now, ok) ==
    [title |-> event.title, link |-> event.link, date |-> event.date,
     timestamp |-> TimeText(now), ok |-> ok]

\* line 308 dropped: the identity is not added
AddSeenDropped(seen, event) == seen

\* line 308: seen_ids.add(event['id'])
AddSeen(seen, event) == seen \cup {event.id}

\* lines 297-308 with a post that is not guarded by lines 157-158: a post
\* that raises ends the loop, the identity is not added
NotifyStopsOnFailure ==
    /\ pc \in {"diffed", "notifying"}
    /\ new_events # <<>>
    /\ idx <= Len(new_events)
    /\ \/ /\ ~webhook_url
          /\ posts' = posts
          /\ seen_ids' = AddSeen(seen_ids, new_events[idx])
          /\ pc' = IF idx = Len(new_events) THEN "notified" ELSE "notifying"
       \/ /\ webhook_url
          /\ \E ok \in BOOLEAN :
                /\ posts' = Append(posts, Payload(new_events[idx], runs, ok))
                /\ seen_ids' = IF ok THEN AddSeen(seen_ids, new_events[idx]) ELSE seen_ids
                /\ pc' = IF idx = Len(new_events) \/ ~ok THEN "notified" ELSE "notifying"
    /\ idx' = idx + 1
    /\ UNCHANGED <<state_file, feed_file, webhook_url, page, exit_status, runs, events,
                   new_events, repeat, state_at_start, feed_at_start,
                   loaded_ids, state_writes, last_write, failed_at, feed_log,
                   retry, args, result>>

\* main, lines 297-308: one round of the loop over new_events; the post is
\* skipped when no webhook is set, and a post that raises is logged only.
Notify ==
    /\ pc \in {"diffed", "notifying"}
    /\ new_events # <<>>
    /\ idx <= Len(new_events)
    /\ \/ /\ ~webhook_url
          /\ posts' = posts
       \/ /\ webhook_url
          /\ \E ok \in BOOLEAN :
                posts' = Append(posts, Payload(new_events[idx], runs, ok))
    /\ seen_ids' = AddSeen(seen_ids, new_events[idx])
    /\ idx' = idx + 1
    /\ pc' = IF idx = Len(new_events) THEN "notified" ELSE "notifying"
    /\ UNCHANGED <<state_file, feed_file, webhook_url, page, exit_status, runs, events,
                   new_events, repeat, state_at_start, feed_at_start,
                   loaded_ids, state_writes, last_write, failed_at, feed_log,
                   retry, args, result>>

\* update_rss_feed, lines 185-230: the feed is written.
Publish ==
    /\ pc = "notified"
    /\ IF new_events = <<>>
       THEN UNCHANGED <<feed_file, feed_log, last_write>>
       ELSE /\ feed_file' = TextFeed(feed_content(new_events, feed_file, runs))
            /\ feed_log' = [feed_log EXCEPT !.writes =
                               Append(@, [events |-> new_events, time |-> runs])]
            /\ last_write' = "feed"
    /\ pc' = "published"
    /\ UNCHANGED <<state_file, webhook_url, posts, page, exit_status, runs, events,
                   new_events, seen_ids, idx, repeat, state_at_start,
                   feed_at_start, loaded_ids, state_writes, failed_at,
                   retry, args, result>>

\* the exit status of a failed write
WriteFailStatus == 1

\* lines 231-233 without sys.exit(1): the error is logged, main goes on
\* to line 314 and saves the Seen-Set
PublishFailSaves ==
    /\ pc = "notified"
    /\ new_events # <<>>
    /\ \E content \in {feed_content(new_events, feed_file, runs)} :
       \E f \in FailedFeedWrite(feed_file, content) :
          /\ feed_file' = f
          /\ feed_log' = [feed_log EXCEPT !.valid = @ /\ f = feed_file]
    /\ state_file' = SavedFile(seen_ids)
    /\ pc' = "done"
    /\ exit_status' = WriteFailStatus
    /\ failed_at' = "feed"
    /\ UNCHANGED <<webhook_url, posts, page, runs, events, new_events,
                   seen_ids, idx, repeat, state_at_start, feed_at_start,
                   loaded_ids, state_writes, last_write, retry, args, result>>

\* update_rss_feed, lines 231-233: writing the feed raises, sys.exit(1).
PublishFail ==
    /\ pc = "notified"
    /\ new_events # <<>>
    /\ \E content \in {feed_content(new_events, feed_file, runs)} :
       \E f \in FailedFeedWrite(feed_file, content) :
          /\ feed_file' = f
          /\ feed_log' = [feed_log EXCEPT !.valid = @ /\ f = feed_file]
    /\ pc' = "done"
    /\ exit_status' = WriteFailStatus
    /\ failed_at' = "feed"
    /\ UNCHANGED <<state_file, webhook_url, posts, page, runs, events, new_events,
                   seen_ids, idx, repeat, state_at_start, feed_at_start,
                   loaded_ids, state_writes, last_write, retry, args, result>>

\* main reaches save_seen_events: line 314 after the feed, line 320 when
\* there is no new event.
AtSave == pc = "published" \/ (pc = "diffed" /\ new_events = <<>>)

\* lines 317-320 with an error exit: a run without new events saves the
\* store and ends with the status of a failure
SaveNothingNewFails ==
    /\ AtSave
    /\ state_file' = SavedFile(seen_ids)
    /\ state_writes' = state_writes + 1
    /\ last_write' = "state"
    /\ pc' = "done"
    /\ exit_status' = IF new_events = <<>> THEN WriteFailStatus ELSE 0
    /\ UNCHANGED <<feed_file, webhook_url, posts, page, runs, events, new_events,
                   seen_ids, idx, repeat, state_at_start, feed_at_start,
                   loaded_ids, failed_at, feed_log, retry, args, result>>

\* save_seen_events, lines 128-130, and the end of main: exit status 0.
Save ==
    /\ AtSave
    /\ state_file' = SavedFile(seen_ids)
    /\ state_writes' = state_writes + 1
    /\ last_write' = "state"
    /\ pc' = "done"
    /\ exit_status' = 0
    /\ UNCHANGED <<feed_file, webhook_url, posts, page, runs, events, new_events,
                   seen_ids, idx, repeat, state_at_start, feed_at_start,
                   loaded_ids, failed_at, feed_log, retry, args, result>>

\* lines 131-133 with a rollback: the feed is put back as it was when the
\* run started
SaveFailRollsBack ==
    /\ AtSave
    /\ \E f \in FailedSave(state_file) : state_file' = f
    /\ feed_file' = feed_at_start
    /\ pc' = "done"
    /\ exit_status' = WriteFailStatus
    /\ failed_at' = "state"
    /\ UNCHANGED <<webhook_url, posts, page, runs, events, new_events,
                   seen_ids, idx, repeat, state_at_start, feed_at_start,
                   loaded_ids, state_writes, last_write, feed_log, retry, args, result>>

\* save_seen_events, lines 131-133: writing the store raises, sys.exit(1).
SaveFail ==
    /\ AtSave
    /\ \E f \in FailedSave(state_file) : state_file' = f
    /\ pc' = "done"
    /\ exit_status' = WriteFailStatus
    /\ failed_at' = "state"
    /\ UNCHANGED <<feed_file, webhook_url, posts, page, runs, events, new_events,
                   seen_ids, idx, repeat, state_at_start, feed_at_start,
                   loaded_ids, state_writes, last_write, feed_log, retry, args, result>>

Next ==
    \/ Fetch
    \/ FetchFail
    \/ Extract
    \/ Diff
    \/ Notify
    \/ Publish
    \/ PublishFail
    \/ Save
    \/ SaveFail

Spec == Init /\ [][Next]_vars

(***************************************************************************)
(* Functions called on their own: the arguments are drawn from bounded     *)
(* sets, no run is under way.                                              *)
(***************************************************************************)
run_vars == <<state_file, feed_file, webhook_url, posts, page, pc, exit_status, runs,
              events, new_events, seen_ids, idx, repeat, state_at_start,
              feed_at_start, loaded_ids, state_writes, last_write, failed_at, feed_log,
              retry>>

\* No run has started and there are no files.
NoRun ==
    /\ state_file = AbsentFile
    /\ feed_file = AbsentFeed
    /\ webhook_url = FALSE
    /\ posts = <<>>
    /\ page = <<>>
    /\ pc = "idle"
    /\ exit_status = Running
    /\ runs = 0
    /\ events = <<>>
    /\ new_events = <<>>
    /\ seen_ids = {}
    /\ idx = 1
    /\ repeat = FALSE
    /\ state_at_start = AbsentFile
    /\ feed_at_start = AbsentFeed
    /\ loaded_ids = {}
    /\ state_writes = 0
    /\ last_write = "none"
    /\ failed_at = "none"
    /\ feed_log = [valid |-> TRUE, writes |-> <<>>]
    /\ retry = <<>>

\* What select_one can find in one enclosing element: no title element,
\* one with blank text, one with text; no date element, or one with or
\* without a datetime attribute and with blank text or text.
TitleMatches == {[hasTitle |-> FALSE, titleText |-> <<>>],
                 [hasTitle |-> TRUE, titleText |-> <<" ">>],
                 [hasTitle |-> TRUE, titleText |-> <<" ", "Intro", " ">>]}

DateMatches ==
    {[hasDate |-> FALSE, datetime |-> <<>>, dateText |-> <<>>]}
    \cup {[hasDate |-> TRUE, datetime |-> dt, dateText |-> tx] :
             dt \in {<<>>, <<"2025-05-01">>}, tx \in {<<" ">>, <<"May 1", " ">>}}

Ancestors ==
    {[hasTitle |-> t.hasTitle, titleText |-> t.titleText, hasDate |-> d.hasDate,
      datetime |-> d.datetime, dateText |-> d.dateText] :
        t \in TitleMatches, d \in DateMatches}

\* The link elements extract_event_data is called on.
LinkElements ==
    {[href |-> h, text |-> tx, raises |-> r, ancestors |-> a] :
        h \in {<<>>, <<"/", "reg", "/", "a">>, <<"//", "[x.org", "/", "reg", "/", "a">>},
        tx \in {<<>>, <<" ">>, <<" ", "Register">>},
        r \in BOOLEAN,
        a \in UNION {[1..n -> Ancestors] : n \in 0..MaxAncestors}}

InitExtractOne ==
    /\ NoRun
    /\ args \in LinkElements
    /\ result = <<>>

\* One call of extract_event_data: result holds what it returned.
ExtractOne ==
    /\ result = <<>>
    /\ result' = <<extract_event_data(args, TARGET_URL)>>
    /\ UNCHANGED <<args, run_vars>>

SpecExtractOne == InitExtractOne /\ [][ExtractOne]_vars

\* The base addresses and the references normalize_url is called on: a
\* reference is a path part, then a query or none, then a fragment or none.
Bases == {TARGET_URL,
          <<"http", ":", "//", "y.org">>,
          <<"http", ":", "//", "y.org", "/", "a", "/", "b", ";", "p", "?", "q=0", "#", "g">>}

RefPaths == {<<>>,
             <<"/", "reg", "/", "a">>,
             <<"reg", "/", "b">>,
             <<"..", "/", "reg", "/", "a">>,
             <<"/", "reg", "/", "a", ";", "v=2">>,
             <<"//", "x.org", "/", "reg", "/", "a">>,
             <<"https", ":", "//", "x.org", "/", "reg", "/", "a">>,
             <<"mailto", ":", "a">>}

RefQueries == {<<>>, <<"?">>, <<"?", "x=1">>, <<"?", "x=2">>}

RefFragments == {<<>>, <<"#", "f">>}

Refs == {p \o q \o f : p \in RefPaths, q \in RefQueries, f \in RefFragments} \ {<<>>}

InitNormalize ==
    /\ NoRun
    /\ args \in {[base |-> b, url |-> u, other |-> o] : b \in Bases, u \in Refs, o \in Refs}
    /\ result = <<>>

\* normalize_url called on two references with the same base: result holds
\* what the two calls returned.
NormalizeTwo ==
    /\ result = <<>>
    /\ result' = <<normalize_url(args.url, args.base), normalize_url(args.other, args.base)>>
    /\ UNCHANGED <<args, run_vars>>

SpecNormalize == InitNormalize /\ [][NormalizeTwo]_vars

(***************************************************************************)
(* Properties.                                                             *)
(***************************************************************************)
\* The identities a store file holds: those of its list, none when the
\* file is missing or is no JSON array.
HeldIds(file) == IF file.kind = "list" THEN {file.ids[i] : i \in 1..Len(file.ids)} ELSE {}

IdsOf(evs) == {evs[i].id : i \in 1..Len(evs)}

\* The run reached the diff: new_events is the new-event list of the run.
Diffed == pc \in {"diffed", "notifying", "notified", "published"}
          \/ (pc = "done" /\ failed_at # "fetch")

\* C1 (idempotence): when a run that ended with status 0 is followed by a
\* run that fetches the same page, the new-event list of the second run is
\* empty.
Idempotence == (repeat /\ Diffed) => new_events = <<>>

\* C1: a second run over a page with two events finds nothing new.
IdempotenceWitness ==
    /\ repeat
    /\ pc = "diffed"
    /\ Len(events) = 2
    /\ new_events = <<>>

\* C2 (monotonicity), as claimed: when a run has ended, whatever its exit
\* status, the store holds every identity it held when the run started.
SeenSetMonotonic == pc = "done" => HeldIds(state_at_start) \subseteq HeldIds(state_file)

\* The positions of the events whose identity is not in the set seen.
Unseen(evs, seen) == {j \in 1..Len(evs) : evs[j].id \notin seen}

\* C3 (diff): the new-event list is the subsequence of the extracted events
\* whose identity is not in the loaded Seen-Set: the k-th unseen event of
\* the page is the k-th new event, and there are no other new events.
DiffIsUnseenSubsequence ==
    pc = "diffed" =>
        /\ Len(new_events) = Cardinality(Unseen(events, HeldIds(state_file)))
        /\ \A j \in Unseen(events, HeldIds(state_file)) :
              new_events[Cardinality({k \in Unseen(events, HeldIds(state_file)) : k <= j})]
                  = events[j]

\* C3: of two extracted events the first is seen and the second is new.
DiffWitness ==
    /\ pc = "diffed"
    /\ Len(events) = 2
    /\ events[1].id \in HeldIds(state_file)
    /\ new_events = <<events[2]>>

\* C4 (identity is a unique key), as claimed: the new-event list holds no
\* two events with the same identity and no event whose identity is in the
\* store.
NewEventsUnique ==
    pc = "diffed" =>
        /\ \A i, j \in 1..Len(new_events) : new_events[i].id = new_events[j].id => i = j
        /\ \A i \in 1..Len(new_events) : new_events[i].id \notin HeldIds(state_file)

\* C5 (the store after a run): after a run that ends with status 0 the
\* store holds the identities it held at the start and those of the new
\* events, and no other; from an empty Seen-Set and one extracted event,
\* the new-event list has length 1 and the store is that one identity.
StoreAfterRun ==
    (pc = "done" /\ exit_status = 0) =>
        /\ state_file.kind = "list"
        /\ HeldIds(state_file) = HeldIds(state_at_start) \cup IdsOf(new_events)
        /\ (HeldIds(state_at_start) = {} /\ Len(events) = 1) =>
              (Len(new_events) = 1 /\ state_file.ids = <<events[1].id>>)

\* C5: a run with one event from a store that did not exist.
StoreAfterRunWitness ==
    /\ pc = "done"
    /\ exit_status = 0
    /\ state_at_start.kind = "absent"
    /\ Len(events) = 1
    /\ state_file.ids = <<events[1].id>>

\* C6 (no new event, no effect), as claimed: a run with an empty new-event
\* list leaves the feed file as it was, posts nothing and leaves the set of
\* identities in the store as it was.
NoNewEventNoEffect ==
    (pc = "done" /\ failed_at # "fetch" /\ new_events = <<>>) =>
        /\ feed_file = feed_at_start
        /\ posts = <<>>
        /\ HeldIds(state_file) = HeldIds(state_at_start)

\* t is strictly increasing in the order of sorted().
StrictlySorted(t) ==
    \A i, j \in 1..Len(t) : i < j => (StrLeq(t[i], t[j]) /\ t[i] # t[j])

\* C7 (the store is written once, last): after a run that ends with status
\* 0 the store is a sorted list of identities, it was written once in the
\* run, and it is the file written last.
StoreWrittenOnceLast ==
    (pc = "done" /\ exit_status = 0) =>
        /\ state_file.kind = "list"
        /\ StrictlySorted(state_file.ids)
        /\ state_writes = 1
        /\ last_write = "state"

\* C7: the store was unreadable, and holds two identities after a run that
\* also wrote the feed.
StoreWrittenWitness ==
    /\ pc = "done"
    /\ exit_status = 0
    /\ state_at_start.kind = "unreadable"
    /\ Len(state_file.ids) = 2
    /\ feed_file.kind = "text"

\* The number of tokens tok in text.
Count(text, tok) == Cardinality({i \in 1..Len(text) : text[i] = tok})

\* t occurs in text, as one piece.
Infix(t, text) == \E k \in 0..(Len(text) - Len(t)) : SubSeq(text, k + 1, k + Len(t)) = t

\* The item of an event as it stands in the feed once it was read back:
\* from "<item>" on, without the indentation.
ReadBack(event, time) == Tail(generate_rss_item(event, time))

\* The items of a new-event list as they stand in the feed of a later run,
\* the last event of the page first.
OldItems(evs, time) ==
    Flatten([i \in 1..Len(evs) |-> ReadBack(evs[Len(evs) + 1 - i], time)])

\* The items of a new-event list as the run itself writes them.
FreshItems(evs, time) ==
    Flatten([i \in 1..Len(evs) |-> generate_rss_item(evs[Len(evs) + 1 - i], time)])

\* C8 (round trip): a feed written from N new events where there was no
\* feed, and written again with M further new events, holds N + M items,
\* the M new ones before the N old ones.
FeedRoundTrip ==
    (feed_log.valid /\ Len(feed_log.writes) = 2) =>
        /\ feed_file.kind = "text"
        /\ Count(feed_file.text, "<item>")
              = Len(feed_log.writes[1].events) + Len(feed_log.writes[2].events)
        /\ Count(feed_file.text, "</item>")
              = Len(feed_log.writes[1].events) + Len(feed_log.writes[2].events)
        /\ Infix(FreshItems(feed_log.writes[2].events, feed_log.writes[2].time)
                 \o OldItems(feed_log.writes[1].events, feed_log.writes[1].time),
                 feed_file.text)

\* C8: N = 2 events, one with markup in its title, then M = 1.
FeedRoundTripWitness ==
    /\ feed_log.valid
    /\ Len(feed_log.writes) = 2
    /\ Len(feed_log.writes[1].events) = 2
    /\ \E i \in 1..2 : "</item>" \in Range(feed_log.writes[1].events[i].title)
    /\ Len(feed_log.writes[2].events) = 1

\* C9 (feed order): a run that writes the feed leaves the items that were
\* in the feed in their order, behind the items of the run, and the items
\* of the run are in reverse page order.
FeedOrder ==
    [][(pc = "notified" /\ pc' = "published") =>
          /\ Len(existing_items(feed_file')) = Len(new_events) + Len(existing_items(feed_file))
          /\ \A i \in 1..Len(new_events) :
                existing_items(feed_file')[i]
                    = ReadBack(new_events[Len(new_events) + 1 - i], runs)
          /\ \A j \in 1..Len(existing_items(feed_file)) :
                existing_items(feed_file')[Len(new_events) + j]
                    = existing_items(feed_file)[j]]_vars

\* C9: two different new events were put before the items of a feed that
\* had an item.
FeedOrderWitness ==
    /\ pc = "published"
    /\ Len(new_events) = 2
    /\ new_events[1].id # new_events[2].id
    /\ existing_items(feed_at_start) # <<>>
    /\ Len(existing_items(feed_file)) = 2 + Len(existing_items(feed_at_start))

\* C10 (fetch failure): a run whose fetch fails ends with a non-zero exit
\* status, posts nothing, and leaves the feed file and the store as they
\* were.
FetchFailureChangesNothing ==
    (pc = "done" /\ failed_at = "fetch") =>
        /\ exit_status # 0
        /\ exit_status # Running
        /\ posts = <<>>
        /\ feed_file = feed_at_start
        /\ state_file = state_at_start

\* C10: the fetch fails in a run after one that wrote the feed and the
\* store.
FetchFailureWitness ==
    /\ pc = "done"
    /\ failed_at = "fetch"
    /\ exit_status = 1
    /\ feed_file.kind = "text"
    /\ state_file.kind = "list"
    /\ state_file.ids # <<>>

\* C11 (a failed feed write marks nothing as seen): a run whose feed write
\* fails ends with a non-zero exit status and leaves the store as it was,
\* with none of the identities of its new events in it; the next run, when
\* it fetches the same page, has the same new-event list.
FeedFailureMarksNothing ==
    /\ (pc = "done" /\ failed_at = "feed") =>
          /\ exit_status # 0
          /\ exit_status # Running
          /\ new_events # <<>>
          /\ state_file = state_at_start
          /\ IdsOf(new_events) \cap HeldIds(state_file) = {}
    /\ (retry # <<>> /\ Diffed) => new_events = retry

\* C11: the feed write failed in a run with two new events, and the next
\* run over the same page has them as its new events again.
FeedFailureWitness ==
    /\ pc = "diffed"
    /\ Len(retry) = 2
    /\ retry[1].id # retry[2].id
    /\ new_events = retry

\* The phases of a run, in the order of main and scrape_events.
PhaseOrder == <<"idle", "fetched", "extracted", "diffed", "notifying", "notified",
                "published", "done">>

Phase(p) == CHOOSE i \in 1..Len(PhaseOrder) : PhaseOrder[i] = p

\* C12 (phases): every step of a run takes it to a later phase (or to the
\* next round of the webhook loop) and only the end of a run is followed by
\* the fetch of the next one; the webhook is posted to before the feed is
\* written, the feed is written before the store, and the store is written
\* by the last step of the run; the step on which the write of the store
\* fails ends the run with a non-zero exit status and leaves the posts and
\* the feed, with the items of the run, as they are.
PhasesInOrder ==
    [][/\ pc \in {"idle", "done"} => pc' \in {"fetched", "done"}
       /\ pc \notin {"idle", "done"} =>
             \/ Phase(pc') > Phase(pc)
             \/ (pc = "notifying" /\ pc' = "notifying" /\ idx' = idx + 1)
       /\ (posts' # posts /\ posts' # <<>>) => pc \in {"diffed", "notifying"}
       /\ feed_file' # feed_file => pc = "notified"
       /\ state_file' # state_file => (pc \in {"diffed", "published"} /\ pc' = "done")
       /\ (pc # "done" /\ pc' = "done" /\ failed_at' = "state") =>
             /\ exit_status' # 0
             /\ exit_status' # Running
             /\ posts' = posts
             /\ feed_file' = feed_file
             /\ \A i \in 1..Len(new_events) :
                   Infix(generate_rss_item(new_events[i], runs), feed_file'.text)]_vars

\* C12: the write of the store failed after two posts and a feed write.
PhasesWitness ==
    /\ pc = "done"
    /\ failed_at = "state"
    /\ exit_status = 1
    /\ Len(posts) = 2
    /\ feed_file # feed_at_start
    /\ Count(feed_file.text, "<guid>") >= 2

\* A post of the current run failed.
PostFailed == \E i \in 1..Len(posts) : ~posts[i].ok

\* The loop over new_events is over.
Notified == pc \in {"notified", "published"} \/ (pc = "done" /\ failed_at \in {"feed", "state"})
            \/ (pc = "done" /\ failed_at = "none" /\ new_events # <<>>)

\* C13 (a webhook failure is recovered): in a run in which a post failed,
\* the webhook was posted to once for every new event, in page order; the
\* run ends with a non-zero exit status only when a write of the feed or
\* of the store failed, and otherwise with status 0, the item of every new
\* event in the feed and the identity of every new event in the store.
WebhookFailureRecovered ==
    PostFailed =>
        /\ Notified =>
              /\ Len(posts) = Len(new_events)
              /\ \A i \in 1..Len(new_events) :
                    /\ posts[i].title = new_events[i].title
                    /\ posts[i].link = new_events[i].link
                    /\ posts[i].date = new_events[i].date
        /\ pc = "done" =>
              /\ exit_status # 0 <=> failed_at \in {"feed", "state"}
              /\ exit_status = 0 =>
                    /\ IdsOf(new_events) \subseteq HeldIds(state_file)
                    /\ feed_file.kind = "text"
                    /\ \A i \in 1..Len(new_events) :
                          Infix(generate_rss_item(new_events[i], runs), feed_file.text)

\* C13: the post for the first of two different new events failed, the
\* second was posted, and the run ended with status 0.
WebhookFailureWitness ==
    /\ pc = "done"
    /\ exit_status = 0
    /\ Len(new_events) = 2
    /\ new_events[1].id # new_events[2].id
    /\ Len(posts) = 2
    /\ ~posts[1].ok
    /\ posts[2].ok

\* The extraction raises on the link element.
Raises(el) == el.raises \/ (el.href # <<>> /\ normalize_url_raises(el.href, TARGET_URL))

\* The extraction fails on the node: it raises, or there is no href.
Fails(node) == Raises(node) \/ node.href = <<>>

\* The positions of the page on which the extraction succeeds.
Succeeding(p) == {j \in 1..Len(p) : ~Fails(p[j])}

\* C14 (extraction failures): a node on which the extraction fails has no
\* event, and the extracted events are the events of the other nodes of
\* the page, in page order: the k-th node that succeeds gives the k-th
\* event; the run is not ended by the extraction.
ExtractionFailureIsLocal ==
    pc = "extracted" =>
        /\ \A j \in 1..Len(page) :
              Fails(page[j]) <=> extract_event_data(page[j], TARGET_URL) = <<>>
        /\ \E ok \in {Succeeding(page)} :
              /\ Len(events) = Cardinality(ok)
              /\ \A j \in ok :
                    <<events[Cardinality({k \in ok : k <= j})]>>
                        = extract_event_data(page[j], TARGET_URL)
        /\ exit_status = Running

\* C14: the extraction raised on the first node of the page and the event
\* of the second node was extracted.
ExtractionFailureWitness ==
    /\ pc = "extracted"
    /\ Len(page) = 2
    /\ page[1].raises
    /\ ~Fails(page[2])
    /\ Len(events) = 1
    /\ events[1].link = normalize_url(page[2].href, TARGET_URL)[2]

\* C15 (exit status): a run that has ended has a non-zero exit status if
\* and only if its fetch failed or its write of the feed or of the store
\* failed; otherwise the status is 0, whatever the number of new events,
\* the failed posts, the nodes without event, and the state of the store
\* and of the feed at the start.
ExitStatusIffFailure ==
    pc = "done" =>
        /\ exit_status # Running
        /\ exit_status # 0 <=> failed_at \in {"fetch", "feed", "state"}
        /\ failed_at = "none" <=> (state_writes = 1 /\ last_write = "state")

\* C15: status 0 after a run with a node without event and a failed post,
\* from a store and a feed that could not be read.
ExitStatusWitness ==
    /\ pc = "done"
    /\ exit_status = 0
    /\ state_at_start.kind = "unreadable"
    /\ feed_at_start.kind = "unreadable"
    /\ Len(page) = 2
    /\ Len(events) = 1
    /\ Len(posts) = 1
    /\ ~posts[1].ok

\* The first text of the list that is not empty.
RECURSIVE FirstNonEmpty(_)
FirstNonEmpty(texts) ==
    IF Len(texts) = 1 \/ Head(texts) # <<>> THEN Head(texts)
    ELSE FirstNonEmpty(Tail(texts))

\* The nearest of the enclosing elements in which there is a title
\* element, a date element: its place in the list, 0 when there is none.
NearestTitle(ancestors) ==
    IF \E k \in 1..Len(ancestors) : ancestors[k].hasTitle
    THEN CHOOSE k \in 1..Len(ancestors) :
            /\ ancestors[k].hasTitle
            /\ \A j \in 1..(k - 1) : ~ancestors[j].hasTitle
    ELSE 0

NearestDate(ancestors) ==
    IF \E k \in 1..Len(ancestors) : ancestors[k].hasDate
    THEN CHOOSE k \in 1..Len(ancestors) :
            /\ ancestors[k].hasDate
            /\ \A j \in 1..(k - 1) : ~ancestors[j].hasDate
    ELSE 0

\* The title and the date the fallback rules give for a link element.
FallbackTitle(el) ==
    FirstNonEmpty(<< IF NearestTitle(el.ancestors) = 0 THEN <<>>
                     ELSE StripText(el.ancestors[NearestTitle(el.ancestors)].titleText),
                     StripText(el.text),
                     <<"Untitled Event">> >>)

FallbackDate(el) ==
    FirstNonEmpty(<< IF NearestDate(el.ancestors) = 0 THEN <<>>
                     ELSE el.ancestors[NearestDate(el.ancestors)].datetime,
                     IF NearestDate(el.ancestors) = 0 THEN <<>>
                     ELSE StripText(el.ancestors[NearestDate(el.ancestors)].dateText),
                     <<"Date TBD">> >>)

\* The call returned an event with the title and the date of the fallback
\* rules, neither of them empty.
ReturnedFallbackEvent ==
    /\ result[1] # <<>>
    /\ result[1][1].title # <<>>
    /\ result[1][1].date # <<>>
    /\ result[1][1].title = FallbackTitle(args)
    /\ result[1][1].date = FallbackDate(args)

\* C16 (fallback completeness), as claimed: for every link element with an
\* href, extract_event_data returns an event, with the title and the date
\* of the fallback rules.
FallbackComplete ==
    (result # <<>> /\ args.href # <<>>) => ReturnedFallbackEvent

\* C16 (fallback completeness), amended: for every link element with an
\* href on which the extraction does not raise, extract_event_data returns
\* an event; its title is the first non-empty of the text of the title
\* element of the nearest enclosing element that has one, the text of the
\* link and "Untitled Event"; its date is the first non-empty of the
\* datetime attribute and the text of the date element of the nearest
\* enclosing element that has one, and "Date TBD".  When the extraction
\* raises there is no event.
FallbackCompleteUnlessRaised ==
    /\ (result # <<>> /\ args.href # <<>> /\ ~Raises(args)) => ReturnedFallbackEvent
    /\ (result # <<>> /\ Raises(args)) => result[1] = <<>>

\* C16: the nearest title element is blank and an outer one has text: the
\* title is the text of the link; the date element has no datetime and
\* blank text: the date is the placeholder.
FallbackWitness ==
    /\ result # <<>>
    /\ result[1] # <<>>
    /\ Len(args.ancestors) = 2
    /\ args.ancestors[1].hasTitle
    /\ args.ancestors[1].titleText = <<" ">>
    /\ args.ancestors[2].titleText = <<" ", "Intro", " ">>
    /\ args.ancestors[1].hasDate
    /\ result[1][1].title = <<"Register">>
    /\ result[1][1].date = <<"Date TBD">>

\* Two addresses that differ in nothing but the query and the fragment.
SameButQueryAndFragment(a, b) ==
    \E pa \in {urlparse(a, "")} : \E pb \in {urlparse(b, "")} :
        /\ pa.scheme = pb.scheme
        /\ pa.netloc = pb.netloc
        /\ pa.path = pb.path
        /\ pa.params = pb.params

\* The identity id is made of the scheme, the host and the path of link.
SchemeHostPathOf(id, link) ==
    /\ "?" \notin Range(id)
    /\ "#" \notin Range(id)
    /\ \E pi \in {urlparse(id, "")} : \E pl \in {urlparse(link, "")} :
          /\ pi.scheme = pl.scheme
          /\ pi.netloc = pl.netloc
          /\ pi.path = pl.path
          /\ pi.params = <<>>
          /\ pi.query = <<>>
          /\ pi.fragment = <<>>

\* The absolute link has the query and the fragment of the reference.
KeepsQueryAndFragment(link, ref) ==
    \E pl \in {urlparse(link, "")} : \E pr \in {urlparse(ref, "")} :
        /\ pl.fragment = pr.fragment
        /\ pr.query # <<>> => pl.query = pr.query

\* C17 (identity stability): when the absolute links of two references,
\* resolved against the same base, differ in nothing but the query and the
\* fragment, normalize_url returns the same identity for both; an identity
\* is the scheme, the host and the path of the absolute link, without
\* query and fragment, and each absolute link has the query and the
\* fragment of its reference.
IdentityStable ==
    result # <<>> =>
        /\ SameButQueryAndFragment(result[1][2], result[2][2]) => result[1][1] = result[2][1]
        /\ SchemeHostPathOf(result[1][1], result[1][2])
        /\ SchemeHostPathOf(result[2][1], result[2][2])
        /\ KeepsQueryAndFragment(result[1][2], args.url)
        /\ KeepsQueryAndFragment(result[2][2], args.other)

\* C17: a relative reference with a query and an absolute one with another
\* query and a fragment have the same identity and different links.
IdentityStableWitness ==
    /\ result # <<>>
    /\ args.url = <<"..", "/", "reg", "/", "a", "?", "x=1">>
    /\ args.other = <<"https", ":", "//", "x.org", "/", "reg", "/", "a", "?", "x=2", "#", "f">>
    /\ result[1][1] = result[2][1]
    /\ result[1][1] = <<"https", ":", "//", "x.org", "/", "reg", "/", "a">>
    /\ result[1][2] = result[1][1] \o <<"?", "x=1">>
    /\ result[2][2] = args.other

\* C18 (loading never fails): the loaded Seen-Set is the list of the store
\* when the store is a list, and empty when the store is missing or
\* cannot be read; the run goes on after the load, and in the latter case
\* every extracted event is a new event, is posted when a webhook is set,
\* and has its item in the feed once the feed is written.
LoadNeverFails ==
    Diffed =>
        /\ state_at_start.kind = "list" => loaded_ids = Range(state_at_start.ids)
        /\ pc = "diffed" => exit_status = Running
        /\ state_at_start.kind \in {"absent", "unreadable"} =>
              /\ loaded_ids = {}
              /\ new_events = events
              /\ (Notified /\ webhook_url) =>
                    /\ Len(posts) = Len(events)
                    /\ \A i \in 1..Len(events) : posts[i].link = events[i].link
              /\ (pc = "published" \/ (pc = "done" /\ exit_status = 0)) =>
                    \A i \in 1..Len(events) :
                        Infix(generate_rss_item(events[i], runs), feed_file.text)

\* C18: the store could not be read, and the two events of the page were
\* posted and written to the feed.
LoadWitness ==
    /\ pc = "published"
    /\ state_at_start.kind = "unreadable"
    /\ Len(events) = 2
    /\ events[1].id # events[2].id
    /\ new_events = events
    /\ Len(posts) = 2
    /\ Count(feed_file.text, "<guid>") = 2

IsItemTag(t) == t \in {"<item>", "</item>"}

\* The text is a feed as the program writes it: the envelope around items
\* that are opened and closed in turn.
WellFormed(text) ==
    /\ Len(text) >= 4
    /\ text[1] = "<rss>"
    /\ text[2] = "<channel>"
    /\ text[Len(text) - 1] = "</channel>"
    /\ text[Len(text)] = "</rss>"
    /\ \E tags \in {SelectSeq(text, IsItemTag)} :
          /\ Len(tags) % 2 = 0
          /\ \A i \in 1..Len(tags) : tags[i] = IF i % 2 = 1 THEN "<item>" ELSE "</item>"

\* The feed file is missing, cannot be read, or is malformed.
Broken(file) == file.kind \in {"absent", "unreadable"} \/ ~WellFormed(file.text)

\* The feed written from the new events of the run and nothing else.
FreshFeed == feed_content(new_events, AbsentFeed, runs)

\* The spans of text from an "<item>" to the next "</item>", one after
\* the other, as one text; a span starts at the first "<item>" after the
\* "</item>" before it.  j is the place read next and open the place
\* where the span under way starts, 0 when none is.
RECURSIVE SpansFrom(_, _, _)
SpansFrom(text, j, open) ==
    IF j > Len(text) THEN <<>>
    ELSE IF text[j] = "</item>"
    THEN (IF open # 0 THEN SubSeq(text, open, j) ELSE <<>>) \o SpansFrom(text, j + 1, 0)
    ELSE IF text[j] = "<item>" /\ open = 0 THEN SpansFrom(text, j + 1, j)
    ELSE SpansFrom(text, j + 1, open)

Spans(file) == IF file.kind = "text" THEN SpansFrom(file.text, 1, 0) ELSE <<>>

\* C19 (a broken feed), as claimed: a run with new events that finds the
\* feed missing, unreadable or malformed writes a feed that holds the new
\* entries of the run and nothing else.
FeedReplacedWhenBroken ==
    [][(pc = "notified" /\ pc' = "published" /\ new_events # <<>> /\ Broken(feed_file)) =>
          feed_file' = TextFeed(FreshFeed)]_vars

\* C19 (a broken feed), amended: a run with new events is not failed by
\* the feed it finds; when the feed is missing or unreadable, or its text
\* has no "<item>" with a "</item>" after it, the feed written holds the
\* new entries of the run and nothing else; from any other text, malformed
\* or not, every span from an "<item>" to the next "</item>" is kept as a
\* prior entry, behind the new entries; the text written replaces the
\* file.
FeedFromBrokenFeed ==
    [][(pc = "notified" /\ pc' = "published" /\ new_events # <<>>) =>
          /\ exit_status' = Running
          /\ Spans(feed_file) = <<>> => feed_file' = TextFeed(FreshFeed)
          /\ feed_file' = TextFeed(SubSeq(FreshFeed, 1, Len(FreshFeed) - 2)
                                   \o Spans(feed_file)
                                   \o SubSeq(FreshFeed, Len(FreshFeed) - 1, Len(FreshFeed)))]_vars

\* C19: two new events were written to a feed that was malformed and had
\* one span from "<item>" to "</item>"; the span is in the new feed.
BrokenFeedWitness ==
    /\ pc = "published"
    /\ Len(new_events) = 2
    /\ feed_at_start.kind = "text"
    /\ ~WellFormed(feed_at_start.text)
    /\ Spans(feed_at_start) # <<>>
    /\ Infix(Spans(feed_at_start), feed_file.text)
    /\ Count(feed_file.text, "</item>") = 3

\* The places of text where a guid starts, and the guid that starts there.
GuidPlaces(text) == {i \in 1..Len(text) : text[i] = "<guid>"}

GuidAt(text, i) ==
    SubSeq(text, i + 1,
           (CHOOSE k \in (i + 1)..Len(text) :
               text[k] = "</guid>" /\ \A h \in (i + 1)..(k - 1) : text[h] # "</guid>") - 1)

\* C20 (guids), as claimed: at any time no two entries of the feed have
\* the same guid, and when the feed has just been written the guids of
\* the entries of the run are the absolute links of its new events.
FeedGuidsUnique ==
    feed_file.kind = "text" =>
        /\ \A i, j \in GuidPlaces(feed_file.text) :
              i # j => GuidAt(feed_file.text, i) # GuidAt(feed_file.text, j)
        /\ pc = "published" =>
              \A e \in 1..Len(new_events) :
                  \E i \in GuidPlaces(feed_file.text) :
                      GuidAt(feed_file.text, i) = escape(new_events[e].link)
====
